---------------------------- MODULE Spec2Model ----------------------------
(***************************************************************************)
(* A model of the Express + OpenAI gateway (src/unnamed/part_001, with the *)
(* earlier variant src/unnamed/part_002 of POST /api/embedding).           *)
(*                                                                         *)
(* Every route handler is an async function: it runs synchronously up to   *)
(* its single await of the provider call, and resumes when the provider's  *)
(* promise settles.  Receive models the first half, ProviderResolve and    *)
(* ProviderReject the second half.                                         *)
(*                                                                         *)
(* JavaScript numbers are binary floating point, round to nearest, ties to *)
(* even.  The model keeps that arithmetic and scales its width down: Prec  *)
(* significand bits (53 in the program) and exponents of the last bit in   *)
(* -ExpLo .. ExpHi (-1074 .. 971 in the program).                          *)
(***************************************************************************)
EXTENDS Integers, Sequences, FiniteSets, TLC

\* ------------------------------------------------------------------ bounds

\* Significand bits of the scaled-down number format.
Prec == 5
\* The smallest exponent of a significand's last bit is -ExpLo.
ExpLo == 6
\* The largest exponent of a significand's last bit is ExpHi.
ExpHi == 6
\* The longest embedding vector the provider returns in the model.
MaxDim == 2

EMin == 0 - ExpLo
EMax == ExpHi

\* ------------------------------------------------- floating-point numbers

Pow2(k) == 2 ^ k

\* A number is NaN, an infinity, or sg * m * 2^e.
NaN == [k |-> "nan", sg |-> 1, m |-> 0, e |-> 0]
Inf(sg) == [k |-> "inf", sg |-> sg, m |-> 0, e |-> 0]
Zero(sg) == [k |-> "fin", sg |-> sg, m |-> 0, e |-> 0]
Fin(sg, m, e) == [k |-> "fin", sg |-> sg, m |-> m, e |-> e]

IsNaN(x) == x.k = "nan"
IsInf(x) == x.k = "inf"
IsFinite(x) == x.k = "fin"
IsZero(x) == x.k = "fin" /\ x.m = 0

RECURSIVE BitLen(_)
\* The number of bits of the natural number n (0 for 0).
BitLen(n) == IF n = 0 THEN 0 ELSE 1 + BitLen(n \div 2)

Max2(a, b) == IF a >= b THEN a ELSE b
Min2(a, b) == IF a <= b THEN a ELSE b

\* The number nearest to sg * (n + d) * 2^x, where 0 <= d < 1 and sticky
\* says d > 0 (then n has more than Prec bits): ties go to the even
\* significand, what is too large becomes an infinity, what is too small
\* loses bits (gradual underflow).
Round(sg, n, sticky, x) ==
  IF n = 0 /\ ~sticky THEN Zero(sg)
  ELSE
    LET drop == Max2(Max2(BitLen(n) - Prec, EMin - x), 0)
        q    == n \div Pow2(drop)
        rem  == n % Pow2(drop)
        half == IF drop = 0 THEN 0 ELSE Pow2(drop - 1)
        up   == IF drop = 0 THEN FALSE
                ELSE \/ rem > half
                     \/ rem = half /\ sticky
                     \/ rem = half /\ ~sticky /\ q % 2 = 1
        q1   == IF up THEN q + 1 ELSE q
        \* a carry out of the significand
        q2   == IF q1 = Pow2(Prec) THEN Pow2(Prec - 1) ELSE q1
        e2   == IF q1 = Pow2(Prec) THEN x + drop + 1 ELSE x + drop
        \* a short significand moves left as far as the exponent allows
        left == IF q2 = 0 THEN 0
                ELSE Max2(Min2(Prec - BitLen(q2), e2 - EMin), 0)
        m3   == q2 * Pow2(left)
        e3   == e2 - left
    IN  IF m3 = 0 THEN Zero(sg)
        ELSE IF e3 > EMax THEN Inf(sg)
        ELSE Fin(sg, m3, e3)

\* The number that the integer literal n denotes.
FromInt(n) == Round(IF n < 0 THEN -1 ELSE 1, IF n < 0 THEN -n ELSE n, FALSE, 0)

\* a * b
Mul(a, b) ==
  IF IsNaN(a) \/ IsNaN(b) THEN NaN
  ELSE IF (IsInf(a) /\ IsZero(b)) \/ (IsZero(a) /\ IsInf(b)) THEN NaN
  ELSE IF IsInf(a) \/ IsInf(b) THEN Inf(a.sg * b.sg)
  ELSE Round(a.sg * b.sg, a.m * b.m, FALSE, a.e + b.e)

\* a + b
Add(a, b) ==
  IF IsNaN(a) \/ IsNaN(b) THEN NaN
  ELSE IF IsInf(a) /\ IsInf(b) THEN (IF a.sg = b.sg THEN a ELSE NaN)
  ELSE IF IsInf(a) THEN a
  ELSE IF IsInf(b) THEN b
  ELSE IF IsZero(a) /\ IsZero(b) THEN (IF a.sg = b.sg THEN a ELSE Zero(1))
  ELSE IF IsZero(a) THEN b
  ELSE IF IsZero(b) THEN a
  ELSE
    LET e0 == Min2(a.e, b.e)
        n  == a.sg * a.m * Pow2(a.e - e0) + b.sg * b.m * Pow2(b.e - e0)
    IN  IF n = 0 THEN Zero(1)
        ELSE Round(IF n < 0 THEN -1 ELSE 1, IF n < 0 THEN -n ELSE n, FALSE, e0)

\* a / b
Div(a, b) ==
  IF IsNaN(a) \/ IsNaN(b) THEN NaN
  ELSE IF IsInf(a) /\ IsInf(b) THEN NaN
  ELSE IF IsZero(a) /\ IsZero(b) THEN NaN
  ELSE IF IsInf(a) \/ IsZero(b) THEN Inf(a.sg * b.sg)
  ELSE IF IsInf(b) \/ IsZero(a) THEN Zero(a.sg * b.sg)
  ELSE
    LET k == 2 * Prec + 2
        n == a.m * Pow2(k)
    IN  Round(a.sg * b.sg, n \div b.m, n % b.m # 0, a.e - b.e - k)

RECURSIVE ISqrt(_)
\* The integer part of the square root of the natural number n.
ISqrt(n) ==
  IF n < 2 THEN n
  ELSE LET s == 2 * ISqrt(n \div 4)
       IN  IF (s + 1) * (s + 1) <= n THEN s + 1 ELSE s

\* Math.sqrt(a)
Sqrt(a) ==
  IF IsNaN(a) THEN NaN
  ELSE IF IsZero(a) THEN a
  ELSE IF a.sg < 0 THEN NaN
  ELSE IF IsInf(a) THEN a
  ELSE
    LET s == 2 * Prec + 4 + ((a.e) % 2)
        n == a.m * Pow2(s)
        r == ISqrt(n)
    IN  Round(1, r, r * r # n, (a.e - s) \div 2)

\* ------------------------------------------------------- JavaScript values

\* A value of the request body, of a provider reply or of a response body.
\* A string is either an opaque text (Str) or, where the code computes on
\* its characters, a sequence of characters (Chars).
Undef == [t |-> "undefined"]
Null == [t |-> "null"]
Str(s) == [t |-> "string", s |-> s]
Chars(cs) == [t |-> "string", chars |-> cs]
Num(n) == [t |-> "number", n |-> n]
Arr(items) == [t |-> "array", items |-> items]

IsChars(v) == v.t = "string" /\ "chars" \in DOMAIN v

\* ToBoolean(v): what `!v` and `v || d` test.
Truthy(v) ==
  CASE v.t = "undefined" -> FALSE
    [] v.t = "null" -> FALSE
    [] v.t = "string" -> IF IsChars(v) THEN v.chars # << >> ELSE v.s # ""
    [] v.t = "number" -> v.n # 0
    [] OTHER -> TRUE

\* A destructuring default `{ f = d } = req.body`: d replaces undefined only.
Default(v, d) == IF v.t = "undefined" THEN d ELSE v

\* a || b
OrElse(a, b) == IF Truthy(a) THEN a ELSE b

IsSpace(c) == c \in {" ", "\t", "\n"}

RECURSIVE TrimStart(_)
TrimStart(cs) ==
  IF cs # << >> /\ IsSpace(Head(cs)) THEN TrimStart(Tail(cs)) ELSE cs

RECURSIVE TrimEnd(_)
TrimEnd(cs) ==
  IF cs # << >> /\ IsSpace(cs[Len(cs)])
  THEN TrimEnd(SubSeq(cs, 1, Len(cs) - 1)) ELSE cs

\* String.prototype.trim
Trim(cs) == TrimEnd(TrimStart(cs))

\* ------------------------------------------------ Number.prototype.toFixed

Digit == <<"0", "1", "2", "3", "4", "5", "6", "7", "8", "9">>

RECURSIVE ToDigits(_)
\* The decimal digits of the natural number n.
ToDigits(n) ==
  IF n < 10 THEN <<Digit[n + 1]>>
  ELSE ToDigits(n \div 10) \o <<Digit[(n % 10) + 1]>>

\* The integer n for which n / 100 is nearest to m * 2^e, the larger one of
\* two.
Hundredths(m, e) ==
  IF e >= 0 THEN 100 * m * Pow2(e)
  ELSE LET d == Pow2(0 - e)
           q == (100 * m) \div d
           r == (100 * m) % d
       IN  IF 2 * r >= d THEN q + 1 ELSE q

\* x.toFixed(2).  A finite number of the scaled-down format is below 10^21,
\* where toFixed turns to the exponent notation.
toFixed2(x) ==
  IF IsNaN(x) THEN <<"N", "a", "N">>
  ELSE IF IsInf(x)
       THEN (IF x.sg < 0 THEN <<"-">> ELSE << >>)
            \o <<"I", "n", "f", "i", "n", "i", "t", "y">>
  ELSE
    LET n == Hundredths(x.m, x.e)
        \* x < 0 is false of -0
        sign == IF x.sg < 0 /\ x.m # 0 THEN <<"-">> ELSE << >>
    IN  sign \o ToDigits(n \div 100) \o <<".">>
             \o <<Digit[((n \div 10) % 10) + 1], Digit[(n % 10) + 1]>>

\* ---------------------------------------------------- cosine similarity

\* embedding[i] of a 0-based index i: undefined past the end, and undefined
\* is NaN in a product.
At(embedding, i) == IF i < Len(embedding) THEN embedding[i + 1] ELSE NaN

RECURSIVE ReduceDot(_, _, _, _)
\* embedding1.reduce((sum, a, i) => sum + a * embedding2[i], 0), from index i
ReduceDot(embedding1, embedding2, i, sum) ==
  IF i >= Len(embedding1) THEN sum
  ELSE ReduceDot(embedding1, embedding2, i + 1,
                 Add(sum, Mul(embedding1[i + 1], At(embedding2, i))))

dotProduct(embedding1, embedding2) ==
  ReduceDot(embedding1, embedding2, 0, Zero(1))

RECURSIVE ReduceSquares(_, _, _)
\* embedding.reduce((sum, a) => sum + a * a, 0), from index i
ReduceSquares(embedding, i, sum) ==
  IF i >= Len(embedding) THEN sum
  ELSE ReduceSquares(embedding, i + 1,
                     Add(sum, Mul(embedding[i + 1], embedding[i + 1])))

magnitude(embedding) == Sqrt(ReduceSquares(embedding, 0, Zero(1)))

\* cosineSimilarity with magnitude1 * magnitude1 for the divisor.
cosineSimilarityOneMagnitude(embedding1, embedding2) ==
  Div(dotProduct(embedding1, embedding2),
      Mul(magnitude(embedding1), magnitude(embedding1)))

\* cosineSimilarity that answers 0 when a magnitude is zero.
cosineSimilarityGuarded(embedding1, embedding2) ==
  IF IsZero(Mul(magnitude(embedding1), magnitude(embedding2)))
  THEN Zero(1)
  ELSE Div(dotProduct(embedding1, embedding2),
           Mul(magnitude(embedding1), magnitude(embedding2)))

cosineSimilarity(embedding1, embedding2) ==
  Div(dotProduct(embedding1, embedding2),
      Mul(magnitude(embedding1), magnitude(embedding2)))

\* similarity_percentage without the `* 100`.
similarity_percentageUnscaled(cos) == Chars(toFixed2(cos) \o <<"%">>)

\* (cosineSimilarity * 100).toFixed(2) + "%"
similarity_percentage(cos) ==
  Chars(toFixed2(Mul(cos, FromInt(100))) \o <<"%">>)

\* ----------------------------------------------------------------- state

\* Request slots of the model.
NumReq == 2
Reqs == 1 .. NumReq

\* texts.length > 2048
MaxBatchTexts == 2048

VARIABLES
  build,    \* which variant of the server runs: "part_001" or "part_002"
  pc,       \* pc[r]: "idle", "awaiting" (suspended at the await) or "done"
  request,  \* request[r]: the route and req.body
  calls,    \* calls[r]: the provider calls the handler has made, in order
  settled,  \* settled[r]: how the provider's promise settled
  sent      \* sent[r]: the responses the handler has sent, in order

vars == <<build, pc, request, calls, settled, sent>>

Builds == {"part_001", "part_002"}

NoRequest == [route |-> "none"]
NotSettled == [kind |-> "pending"]

\* --------------------------------------------------------------- responses

\* res.status(c).json(b); res.json(b) is status 200.
Response(status, body) == [status |-> status, body |-> body]

\* What the first half of a handler ends in: a response, or the provider
\* call it awaits; calls are the provider calls it has made.
Respond(status, body) ==
  [respond |-> TRUE, calls |-> << >>, response |-> Response(status, body)]
Await(api, args) ==
  [respond |-> FALSE, calls |-> <<[api |-> api, args |-> args]>>]

\* What reshaping a provider result ends in: the body for res.json, or a
\* thrown error.
Ok(body) == [threw |-> FALSE, body |-> body]
Throw(error) == [threw |-> TRUE, error |-> error]

\* A thrown value: an Error instance with its message, or anything else.
ErrorValue(isError, message) == [instanceofError |-> isError, message |-> message]
TypeError(text) == ErrorValue(TRUE, Str(text))

\* The fixed error message of each route's catch block.
RouteError(route) ==
  CASE route = "chat" -> "Failed to get response from OpenAI"
    [] route = "completion" -> "Failed to get completion from OpenAI"
    [] route = "models" -> "Failed to fetch models from OpenAI"
    [] route = "embedding" -> "Failed to get embedding from OpenAI"
    [] route = "batch" -> "Failed to get batch embeddings from OpenAI"
    [] route = "similarity" -> "Failed to calculate embedding similarity"

\* details as `error.message || "Unknown error"`.
detailsOrUnknown(error) == OrElse(error.message, Str("Unknown error"))

\* error instanceof Error ? error.message : "Unknown error"
details(error) ==
  IF error.instanceofError THEN error.message ELSE Str("Unknown error")

\* catchBlock that calls the provider once more instead of answering.
catchBlockRetry(route, error) == Await("retry", [route |-> route])

\* catchBlock that names its message `message` instead of `error`.
catchBlockNoErrorField(route, error) ==
  Respond(500, [message |-> Str(RouteError(route)), details |-> details(error)])

\* The catch block as it would be had it only logged the error.
catchBlockLogOnly(route, error) ==
  [respond |-> FALSE, calls |-> << >>]

\* catch (error) { res.status(500).json({ error: ..., details: ... }) }
catchBlock(route, error) ==
  Respond(500, [error |-> Str(RouteError(route)), details |-> details(error)])

\* ------------------------------------------------- handlers, to the await

healthHandler ==
  Respond(200, [message |-> Str("Express + TypeScript + OpenAI Server is running!"),
                timestamp |-> Str("new Date().toISOString()")])

chatStart(body) ==
  LET message == body.message
      model   == Default(body.model, Str("gpt-3.5-turbo"))
  IN  IF ~Truthy(message)
      THEN Respond(400, [error |-> Str("Message is required")])
      ELSE Await("chat.completions.create",
                 [model |-> model,
                  messages |-> <<[role |-> "user", content |-> message]>>,
                  max_tokens |-> Num(500)])

completionStart(body) ==
  LET prompt     == body.prompt
      model      == Default(body.model, Str("gpt-3.5-turbo-instruct"))
      max_tokens == Default(body.max_tokens, Num(100))
  IN  IF ~Truthy(prompt)
      THEN Respond(400, [error |-> Str("Prompt is required")])
      ELSE Await("completions.create",
                 [model |-> model, prompt |-> prompt,
                  max_tokens |-> max_tokens, temperature |-> Str("0.7 (number)")])

modelsStart == Await("models.list", [none |-> Undef])

\* src/unnamed/part_001 sends whatever text is; src/unnamed/part_002
\* requires it and sends no encoding_format.
embeddingStart(bld, body) ==
  LET text            == body.text
      model           == Default(body.model, Str("text-embedding-ada-002"))
      encoding_format == Default(body.encoding_format, Str("float"))
  IN  IF bld = "part_002"
      THEN IF ~Truthy(text)
           THEN Respond(400, [error |-> Str("Text is required")])
           ELSE Await("embeddings.create", [model |-> model, input |-> text])
      ELSE Await("embeddings.create",
                 [model |-> model, input |-> text,
                  encoding_format |-> encoding_format])

\* texts.length, of an array or of a string
LengthOf(v) == IF v.t = "array" THEN Len(v.items) ELSE 0

\* batchStart with `texts.length >= 2048` for `texts.length > 2048`.
batchStartOffByOne(body) ==
  LET texts == body.texts
      model == Default(body.model, Str("text-embedding-ada-002"))
  IN  IF ~Truthy(texts) \/ texts.t # "array" \/ LengthOf(texts) = 0
      THEN Respond(400, [error |->
                           Str("Texts array is required and must not be empty")])
      ELSE IF LengthOf(texts) >= MaxBatchTexts
      THEN Respond(400, [error |-> Str("Maximum 2048 texts allowed per batch")])
      ELSE Await("embeddings.create", [model |-> model, input |-> texts])

batchStart(body) ==
  LET texts == body.texts
      model == Default(body.model, Str("text-embedding-ada-002"))
  IN  IF ~Truthy(texts) \/ texts.t # "array" \/ LengthOf(texts) = 0
      THEN Respond(400, [error |->
                           Str("Texts array is required and must not be empty")])
      ELSE IF LengthOf(texts) > MaxBatchTexts
      THEN Respond(400, [error |-> Str("Maximum 2048 texts allowed per batch")])
      ELSE Await("embeddings.create", [model |-> model, input |-> texts])

\* similarityStart with `!text1 && !text2` for `!text1 || !text2`.
similarityStartBothMissing(body) ==
  LET text1 == body.text1
      text2 == body.text2
      model == Default(body.model, Str("text-embedding-ada-002"))
  IN  IF ~Truthy(text1) /\ ~Truthy(text2)
      THEN Respond(400, [error |-> Str("Both text1 and text2 are required")])
      ELSE Await("embeddings.create",
                 [model |-> model, input |-> Arr(<<text1, text2>>)])

similarityStart(body) ==
  LET text1 == body.text1
      text2 == body.text2
      model == Default(body.model, Str("text-embedding-ada-002"))
  IN  IF ~Truthy(text1) \/ ~Truthy(text2)
      THEN Respond(400, [error |-> Str("Both text1 and text2 are required")])
      ELSE Await("embeddings.create",
                 [model |-> model, input |-> Arr(<<text1, text2>>)])

\* The handler of a route, from the request to its response or its await.
Start(bld, route, body) ==
  CASE route = "health" -> healthHandler
    [] route = "chat" -> chatStart(body)
    [] route = "completion" -> completionStart(body)
    [] route = "models" -> modelsStart
    [] route = "embedding" -> embeddingStart(bld, body)
    [] route = "batch" -> batchStart(body)
    [] route = "similarity" -> similarityStart(body)

\* ------------------------------------------- handlers, after the await

\* v is null or undefined: where `?.` stops.
Nullish(v) == v.t \in {"undefined", "null"}

\* a[i] of a 0-based index i
Index(a, i) == IF i + 1 \in DOMAIN a.items THEN a.items[i + 1] ELSE Undef

CannotRead(of, prop) ==
  TypeError("Cannot read properties of " \o of \o " (reading '" \o prop \o "')")

\* logDataTypeAnalysis(data, label) of src/unnamed/part_001 only reads data
\* and writes to the console: it changes nothing the handlers use.

chatFinish(completion) ==
  IF Nullish(completion.choices) THEN Throw(CannotRead("undefined", "0"))
  ELSE
    LET first   == Index(completion.choices, 0)
        message == IF Nullish(first) THEN Undef ELSE first.message
        content == IF Nullish(message) THEN Undef ELSE message.content
    IN  Ok([response |-> OrElse(content, Str("No response generated")),
            usage    |-> completion.usage,
            model    |-> completion.model])

completionFinish(completion) ==
  IF Nullish(completion.choices) THEN Throw(CannotRead("undefined", "0"))
  ELSE
    LET first   == Index(completion.choices, 0)
        text    == IF Nullish(first) THEN Undef ELSE first.text
        trimmed == IF Nullish(text) THEN Undef ELSE Chars(Trim(text.chars))
    IN  Ok([response |-> OrElse(trimmed, Str("No response generated")),
            usage    |-> completion.usage,
            model    |-> completion.model])

modelsFinish(models) ==
  IF Nullish(models.data) THEN Throw(CannotRead("undefined", "map"))
  ELSE
    LET data == models.data.items
    IN  Ok([models |-> Arr([i \in 1 .. Len(data) |->
                              [id       |-> data[i].id,
                               created  |-> data[i].created,
                               owned_by |-> data[i].owned_by]])])

embeddingFinish(embedding) == Ok([embedding |-> embedding])

\* batchFinish with `texts[index + 1]` for `texts[index]`.
batchFinishShifted(body, embeddings) ==
  IF Nullish(embeddings.data) THEN Throw(CannotRead("undefined", "map"))
  ELSE
    LET texts == body.texts
        data  == embeddings.data.items
    IN  IF \E i \in 1 .. Len(data) : Nullish(data[i].embedding)
        THEN Throw(CannotRead("undefined", "length"))
        ELSE Ok([embeddings |->
                   Arr([i \in 1 .. Len(data) |->
                          [index      |-> i - 1,
                           text       |-> Index(texts, i),
                           embedding  |-> data[i].embedding,
                           dimensions |-> Len(data[i].embedding.items)]]),
                 usage |-> embeddings.usage,
                 model |-> embeddings.model,
                 total_embeddings |-> Len(data)])

batchFinish(body, embeddings) ==
  IF Nullish(embeddings.data) THEN Throw(CannotRead("undefined", "map"))
  ELSE
    LET texts == body.texts
        data  == embeddings.data.items
    IN  IF \E i \in 1 .. Len(data) : Nullish(data[i].embedding)
        THEN Throw(CannotRead("undefined", "length"))
        ELSE Ok([embeddings |->
                   Arr([i \in 1 .. Len(data) |->
                          [index      |-> i - 1,
                           text       |-> Index(texts, i - 1),
                           embedding  |-> data[i].embedding,
                           dimensions |-> Len(data[i].embedding.items)]]),
                 usage |-> embeddings.usage,
                 model |-> embeddings.model,
                 total_embeddings |-> Len(data)])

similarityFinish(body, embeddings) ==
  IF Nullish(embeddings.data) THEN Throw(CannotRead("undefined", "0"))
  ELSE IF Nullish(Index(embeddings.data, 0)) \/ Nullish(Index(embeddings.data, 1))
  THEN Throw(CannotRead("undefined", "embedding"))
  ELSE
    LET embedding1 == Index(embeddings.data, 0).embedding
        embedding2 == Index(embeddings.data, 1).embedding
    IN  IF Nullish(embedding1) THEN Throw(CannotRead("undefined", "reduce"))
        ELSE IF Nullish(embedding2)
        THEN Throw(CannotRead("undefined",
                              IF Len(embedding1.items) > 0 THEN "0" ELSE "reduce"))
        ELSE
          LET cos == cosineSimilarity(embedding1.items, embedding2.items)
          IN  Ok([text1 |-> body.text1,
                  text2 |-> body.text2,
                  cosine_similarity |-> cos,
                  similarity_percentage |-> similarity_percentage(cos),
                  embeddings |->
                    [text1 |-> [embedding  |-> embedding1,
                                dimensions |-> Len(embedding1.items)],
                     text2 |-> [embedding  |-> embedding2,
                                dimensions |-> Len(embedding2.items)]],
                  usage |-> embeddings.usage,
                  model |-> embeddings.model])

\* The handler of a route, resumed with the value the provider resolved to.
Finish(route, body, value) ==
  CASE route = "chat" -> chatFinish(value)
    [] route = "completion" -> completionFinish(value)
    [] route = "models" -> modelsFinish(value)
    [] route = "embedding" -> embeddingFinish(value)
    [] route = "batch" -> batchFinish(body, value)
    [] route = "similarity" -> similarityFinish(body, value)

\* ------------------------------------------------------ request bodies

Routes ==
  {"health", "chat", "completion", "models", "embedding", "batch", "similarity"}

\* The texts of a batch: t0, t1, t0, ... from position p
BatchTexts(len, p) ==
  Arr([i \in 1 .. len |-> IF (i + p) % 2 = 0 THEN Str("t0") ELSE Str("t1")])

\* req.body, a JSON object (express.json()), by route.
Bodies(route) ==
  CASE route = "chat" ->
         [message : {Undef, Null, Str(""), Str("Hello")},
          model   : {Undef, Str("gpt-4")}]
    [] route = "completion" ->
         [prompt     : {Undef, Str(""), Str("Once")},
          model      : {Undef, Str("davinci-002")},
          max_tokens : {Undef, Num(5)}]
    [] route = "embedding" ->
         [text            : {Undef, Str(""), Str("Hello")},
          model           : {Undef},
          encoding_format : {Undef, Str("base64")}]
    [] route = "batch" ->
         [texts : {Undef, Null, Str("t0")}
                  \cup {BatchTexts(len, p) : len \in 0 .. 3, p \in 0 .. 1}
                  \cup {BatchTexts(len, 0) :
                          len \in MaxBatchTexts - 1 .. MaxBatchTexts + 1},
          model : {Undef}]
    [] route = "similarity" ->
         [text1 : {Undef, Str(""), Str("cat")},
          text2 : {Undef, Null, Str("dog")},
          model : {Undef}]
    [] OTHER -> {[none |-> Undef]}

\* ------------------------------------------------------ provider results

\* What a failed provider call throws: the SDK's Error instances, and
\* values that are no Error instance, with and without a message property.
Failures ==
  {ErrorValue(TRUE, Str("401 Incorrect API key provided")),
   ErrorValue(TRUE, Str("Connection error.")),
   ErrorValue(TRUE, Str("")),
   ErrorValue(FALSE, Undef),
   ErrorValue(FALSE, Str("socket hang up"))}

Usage == [t |-> "object", total_tokens |-> Num(8)]

ChatValues ==
  [choices : {Undef, Arr(<< >>), Arr(<<[t |-> "object", message |-> Undef]>>)}
             \cup {Arr(<<[t |-> "object",
                          message |-> [t |-> "object", content |-> c]]>>) :
                     c \in {Null, Str(""), Str("Hi there")}},
   usage   : {Usage},
   model   : {Str("gpt-3.5-turbo-0125")}]

CompletionValues ==
  [choices : {Undef, Arr(<< >>)}
             \cup {Arr(<<[t |-> "object", text |-> x]>>) :
                     x \in {Undef, Chars(<< >>), Chars(<<" ", "\n">>),
                            Chars(<<" ", "u", "p", "o", "n", " ">>)}},
   usage   : {Usage},
   model   : {Str("gpt-3.5-turbo-instruct")}]

ModelEntry(id) ==
  [t |-> "object", id |-> Str(id), object |-> Str("model"),
   created |-> Num(1686935002), owned_by |-> Str("openai")]

ModelsValues ==
  [data : {Undef, Arr(<< >>), Arr(<<ModelEntry("gpt-4")>>),
           Arr(<<ModelEntry("gpt-4"), ModelEntry("ada")>>),
           Arr(<<ModelEntry("ada"), ModelEntry("gpt-4")>>)}]

\* The numbers an embedding holds in the model: 0, -1, 5, the smallest
\* positive number and the largest finite number.
Components ==
  {Zero(1), FromInt(-1), FromInt(5),
   Fin(1, 1, EMin), Fin(1, Pow2(Prec) - 1, EMax)}

RECURSIVE VectorsOf(_)
\* The vectors of n components.
VectorsOf(n) ==
  IF n = 0 THEN {<< >>}
  ELSE {Append(v, c) : v \in VectorsOf(n - 1), c \in Components}

Vectors == UNION {VectorsOf(n) : n \in 0 .. MaxDim}

Item(embedding) == [t |-> "object", embedding |-> embedding]

EmbeddingValues ==
  [data  : {Undef} \cup {Arr(<<Item(Arr(v))>>) : v \in VectorsOf(1)},
   usage : {Usage},
   model : {Str("text-embedding-ada-002")}]

\* An embedding per position: the two vectors of a pool in turn from p
PoolVector(i) == IF i % 2 = 0 THEN <<FromInt(1), FromInt(2)>> ELSE <<FromInt(3)>>

BatchData(len, p) == Arr([i \in 1 .. len |-> Item(Arr(PoolVector(i + p)))])

\* The provider is opaque: it answers a batch of n texts with n items, or
\* with one less or one more than n, or with an item that has no embedding,
\* or with no data.
BatchValues(n) ==
  [data  : {Undef, Arr(<<Item(Undef)>>)}
           \cup {BatchData(len, p) :
                   len \in {k \in {n - 1, n, n + 1} : k >= 0}, p \in 0 .. 1},
   usage : {Usage},
   model : {Str("text-embedding-ada-002")}]

SimilarityValues ==
  [data  : {Undef, Arr(<< >>), Arr(<<Item(Arr(<<FromInt(1)>>))>>),
            Arr(<<Item(Undef), Item(Arr(<<FromInt(1)>>))>>),
            Arr(<<Item(Arr(<<FromInt(1)>>)), Item(Undef)>>),
            Arr(<<Item(Arr(<< >>)), Item(Undef)>>)}
           \cup {Arr(<<Item(Arr(v1)), Item(Arr(v2))>>) :
                   v1 \in Vectors, v2 \in Vectors},
   usage : {Usage},
   model : {Str("text-embedding-ada-002")}]

\* The values the provider may resolve the call of a request to.
Values(req) ==
  CASE req.route = "chat" -> ChatValues
    [] req.route = "completion" -> CompletionValues
    [] req.route = "models" -> ModelsValues
    [] req.route = "embedding" -> EmbeddingValues
    [] req.route = "batch" -> BatchValues(LengthOf(req.body.texts))
    [] req.route = "similarity" -> SimilarityValues
    [] OTHER -> {}

\* ---------------------------------------------------------------- actions

Init ==
  /\ build \in Builds
  /\ pc = [r \in Reqs |-> "idle"]
  /\ request = [r \in Reqs |-> NoRequest]
  /\ calls = [r \in Reqs |-> << >>]
  /\ settled = [r \in Reqs |-> NotSettled]
  /\ sent = [r \in Reqs |-> << >>]

\* The handler of request r has come to outcome o: the provider calls it
\* made are recorded, and it has answered or is suspended at its await.
Apply(r, o) ==
  /\ calls' = [calls EXCEPT ![r] = @ \o o.calls]
  /\ IF o.respond
     THEN /\ sent' = [sent EXCEPT ![r] = Append(@, o.response)]
          /\ pc' = [pc EXCEPT ![r] = "done"]
     ELSE /\ sent' = sent
          /\ pc' = [pc EXCEPT ![r] = "awaiting"]

\* try { ... await ...; res.json(...) } catch (error) { ... }, from the point
\* where the awaited call resolved to value
Resolved(route, body, value) ==
  LET o == Finish(route, body, value)
  IN  IF o.threw THEN catchBlock(route, o.error) ELSE Respond(200, o.body)

\* A request arrives and its handler runs to its response or to its await.
Receive(r) ==
  /\ pc[r] = "idle"
  /\ \E route \in Routes : \E body \in Bodies(route) :
       /\ request' = [request EXCEPT ![r] = [route |-> route, body |-> body]]
       /\ Apply(r, Start(build, route, body))
  /\ UNCHANGED <<build, settled>>

\* The provider call resolves; the handler reshapes the value and answers,
\* or what it throws meanwhile reaches its catch block.
ProviderResolve(r) ==
  /\ pc[r] = "awaiting"
  /\ \E value \in Values(request[r]) :
       /\ settled' = [settled EXCEPT ![r] =
                        [kind |-> "resolved", value |-> value]]
       /\ Apply(r, Resolved(request[r].route, request[r].body, value))
  /\ UNCHANGED <<build, request>>

\* The provider call fails; the catch block answers.
ProviderReject(r) ==
  /\ pc[r] = "awaiting"
  /\ \E error \in Failures :
       /\ settled' = [settled EXCEPT ![r] =
                        [kind |-> "rejected", error |-> error]]
       /\ Apply(r, catchBlock(request[r].route, error))
  /\ UNCHANGED <<build, request>>

\* One request at a time, in slot 1.
Next ==
  \/ Receive(1)
  \/ ProviderResolve(1)
  \/ ProviderReject(1)

Spec == Init /\ [][Next]_vars

\* ---------------------------------------------------- concurrent requests

\* Node runs the handlers of several requests interleaved: each runs alone
\* to its await, the provider's promise settles at any later moment, and the
\* event loop then resumes the handler, which runs alone to its response.

\* The requests in flight together: on each route one that fails validation
\* and one that passes; the batch route gets two different passing bodies.
ConcurrentBodies(route) ==
  CASE route = "chat" ->
         [message : {Undef, Str("Hello")}, model : {Undef}]
    [] route = "completion" ->
         [prompt : {Undef, Str("Once")}, model : {Undef}, max_tokens : {Undef}]
    [] route = "batch" ->
         [texts : {Arr(<< >>), BatchTexts(2, 0), BatchTexts(2, 1)},
          model : {Undef}]
    [] route = "similarity" ->
         [text1 : {Str("cat")}, text2 : {Undef, Str("dog")}, model : {Undef}]
    [] OTHER -> {}

ConcurrentRoutes == {"chat", "completion", "batch", "similarity"}

\* What the provider resolves those calls to.
ConcurrentValues(req) ==
  CASE req.route = "chat" ->
         {[choices |-> Arr(<<[t |-> "object",
                              message |-> [t |-> "object",
                                           content |-> Str("Hi there")]]>>),
           usage |-> Usage, model |-> Str("gpt-3.5-turbo-0125")]}
    [] req.route = "completion" ->
         {[choices |-> Arr(<<[t |-> "object",
                              text |-> Chars(<<" ", "u", "p", "o", "n", " ">>)]>>),
           usage |-> Usage, model |-> Str("gpt-3.5-turbo-instruct")]}
    [] req.route = "batch" ->
         {[data |-> BatchData(2, 0), usage |-> Usage,
           model |-> Str("text-embedding-ada-002")]}
    [] req.route = "similarity" ->
         {[data |-> Arr(<<Item(Arr(<<FromInt(-1), FromInt(5)>>)),
                          Item(Arr(<<FromInt(5), FromInt(5)>>))>>),
           usage |-> Usage, model |-> Str("text-embedding-ada-002")]}
    [] OTHER -> {}

\* What those calls fail with.
ConcurrentFailures == {ErrorValue(TRUE, Str("Connection error."))}

\* Request r arrives and its handler runs to its response or to its await.
Arrive(r) ==
  /\ pc[r] = "idle"
  /\ \E route \in ConcurrentRoutes : \E body \in ConcurrentBodies(route) :
       /\ request' = [request EXCEPT ![r] = [route |-> route, body |-> body]]
       /\ Apply(r, Start(build, route, body))
  /\ UNCHANGED <<build, settled>>

\* The ways the provider call of a request may settle.
Outcomes(req) ==
  {[kind |-> "resolved", value |-> value] : value \in ConcurrentValues(req)}
    \cup {[kind |-> "rejected", error |-> error] : error \in ConcurrentFailures}

\* The promise of request r's provider call settles, resolved or rejected;
\* the handler's continuation is queued.
Settle(r) ==
  /\ pc[r] = "awaiting"
  /\ \E outcome \in Outcomes(request[r]) :
       settled' = [settled EXCEPT ![r] = outcome]
  /\ pc' = [pc EXCEPT ![r] = "settled"]
  /\ UNCHANGED <<build, request, calls, sent>>

\* The handler of request r resumes after its await with a request and the
\* settlement of its call, and runs to its response.
Continue(req, outcome) ==
  IF outcome.kind = "resolved"
  THEN Resolved(req.route, req.body, outcome.value)
  ELSE catchBlock(req.route, outcome.error)

\* The requests that may be in flight.
ConcurrentRequests ==
  UNION {{[route |-> route, body |-> body] : body \in ConcurrentBodies(route)} :
           route \in ConcurrentRoutes}

\* Each request with each way its provider call may settle.
Settlements ==
  UNION {{<<req, outcome>> : outcome \in Outcomes(req)} :
           req \in ConcurrentRequests}

\* The continuation as a function of the request and the settlement.
Continuation == [x \in Settlements |-> Continue(x[1], x[2])]

\* The handler as it would resume had it kept req.body in a variable of the
\* module, which every arriving request of the route overwrites.
ResumeSharedBody(r) ==
  /\ pc[r] = "settled"
  /\ \E s \in Reqs :
       /\ request[s].route = request[r].route
       /\ Apply(r, Continue(request[s], settled[r]))
  /\ UNCHANGED <<build, request, settled>>

\* The event loop resumes the handler of request r.
Resume(r) ==
  /\ pc[r] = "settled"
  /\ Apply(r, Continuation[<<request[r], settled[r]>>])
  /\ UNCHANGED <<build, request, settled>>

ConcurrentNext ==
  \E r \in Reqs :
    \/ Arrive(r)
    \/ Settle(r)
    \/ Resume(r)

\* The event loop runs every queued continuation; nothing obliges a request
\* to arrive or the provider to reply.
ConcurrentSpec ==
  /\ Init
  /\ [][ConcurrentNext]_vars
  /\ \A r \in Reqs : WF_vars(Resume(r))

\* ------------------------------------------------------------ properties

IsUndefined(v) == v.t = "undefined"
HasField(rec, f) == f \in DOMAIN rec

Arrived(r) == request[r].route # "none"
Answered(r) == pc[r] = "done"
\* The response request r received.
Answer(r) == sent[r][1]
Rejected(r) == settled[r].kind = "rejected"
ResolvedOk(r) == settled[r].kind = "resolved"

\* The route's required field is absent from the request body.
RequiredMissing(req) ==
  \/ req.route = "chat" /\ IsUndefined(req.body.message)
  \/ req.route = "completion" /\ IsUndefined(req.body.prompt)
  \/ req.route = "similarity"
     /\ (IsUndefined(req.body.text1) \/ IsUndefined(req.body.text2))

\* C1: on POST /api/chat, /api/completion and /api/embeddings/similarity a
\* request that lacks its required field (message, prompt, or either of
\* text1 and text2) is answered, in the very step it arrives, with status 400
\* and an error body, and no provider call is made for it.
C1_MissingFieldAnswered400 ==
  \A r \in Reqs :
    (Arrived(r) /\ RequiredMissing(request[r]))
      => /\ Answered(r)
         /\ Len(sent[r]) = 1
         /\ Answer(r).status = 400
         /\ HasField(Answer(r).body, "error")
         /\ calls[r] = << >>

\* C1's case: a similarity request with text1 but no text2 got its 400.
C1_Witness ==
  \E r \in Reqs :
    /\ request[r].route = "similarity"
    /\ Truthy(request[r].body.text1)
    /\ IsUndefined(request[r].body.text2)
    /\ Answered(r)
    /\ Answer(r).status = 400

\* The thrown value carries a message: an Error instance always does, and
\* another value does when it has a message property.
HasMessage(error) == ~IsUndefined(error.message)

\* C2 as the specification states it: a failure of the provider call is
\* answered with status 500, the route's fixed error message, and details
\* equal to the failure's message, or "Unknown error" when the failure has
\* no message.
C2_DetailsIsMessageOrUnknown ==
  \A r \in Reqs :
    (Answered(r) /\ Rejected(r))
      => /\ Answer(r).status = 500
         /\ Answer(r).body.error = Str(RouteError(request[r].route))
         /\ Answer(r).body.details =
              (IF HasMessage(settled[r].error) THEN settled[r].error.message
               ELSE Str("Unknown error"))

\* C2, amended: a failure of the provider call is answered with status 500,
\* the route's fixed error message, and details equal to the failure's
\* message when the failure is an Error instance, and "Unknown error" when
\* it is not one, whether or not it carries a message.
C2_DetailsIsErrorMessageOrUnknown ==
  \A r \in Reqs :
    (Answered(r) /\ Rejected(r))
      => /\ Len(sent[r]) = 1
         /\ Answer(r).status = 500
         /\ Answer(r).body.error = Str(RouteError(request[r].route))
         /\ (settled[r].error.instanceofError
               => Answer(r).body.details = settled[r].error.message)
         /\ (~settled[r].error.instanceofError
               => Answer(r).body.details = Str("Unknown error"))

\* C2's case: the provider call of a chat request failed with an Error
\* instance and the 500 carries its message.
C2_Witness ==
  \E r \in Reqs :
    /\ request[r].route = "chat"
    /\ Rejected(r)
    /\ settled[r].error.instanceofError
    /\ Answered(r)
    /\ Answer(r).body.details = Str("401 Incorrect API key provided")

\* A batch request whose texts are an array of 1 to 2048 items.
BatchOf(r) ==
  /\ request[r].route = "batch"
  /\ request[r].body.texts.t = "array"
  /\ LengthOf(request[r].body.texts) \in 1 .. MaxBatchTexts

\* Item i (from 1) of the answer to a batch request holds text i of the
\* request and the index i - 1.
Aligned(r, i) ==
  /\ Answer(r).body.embeddings.items[i].index = i - 1
  /\ Answer(r).body.embeddings.items[i].text = request[r].body.texts.items[i]

\* C3 as the specification states it: the 200 answer to a batch of L texts,
\* 1 <= L <= 2048, holds exactly L items, item i with text i and index i.
C3_BatchAnswerHasLItems ==
  \A r \in Reqs :
    (BatchOf(r) /\ Answered(r) /\ Answer(r).status = 200)
      => /\ Len(Answer(r).body.embeddings.items)
              = LengthOf(request[r].body.texts)
         /\ \A i \in 1 .. LengthOf(request[r].body.texts) : Aligned(r, i)

\* C3, amended: the 200 answer to a batch of L texts, 1 <= L <= 2048, holds
\* exactly as many items as the provider returned, which it also reports as
\* total_embeddings; every item i has index i, and text i when i < L; so
\* when the provider returns one item per text the answer holds exactly L
\* items, item i with text i and index i.
C3_BatchAnswerFollowsProvider ==
  \A r \in Reqs :
    (BatchOf(r) /\ Answered(r) /\ Answer(r).status = 200)
      => LET L     == LengthOf(request[r].body.texts)
             n     == Len(settled[r].value.data.items)
             items == Answer(r).body.embeddings.items
         IN  /\ Len(items) = n
             /\ Answer(r).body.total_embeddings = n
             /\ \A i \in 1 .. n :
                  /\ items[i].index = i - 1
                  /\ i <= L => items[i].text = request[r].body.texts.items[i]
                  /\ i > L => IsUndefined(items[i].text)
                  /\ items[i].embedding = settled[r].value.data.items[i].embedding
             /\ n = L => \A i \in 1 .. L : Aligned(r, i)

\* C3's case: a batch of 3 texts, the provider returned 3 items, and the
\* answer is a 200.
C3_Witness ==
  \E r \in Reqs :
    /\ BatchOf(r)
    /\ LengthOf(request[r].body.texts) = 3
    /\ Answered(r)
    /\ Answer(r).status = 200
    /\ Len(Answer(r).body.embeddings.items) = 3

\* The provider resolved the call of r with data in which every item has an
\* embedding.
WellFormedData(r) ==
  /\ ResolvedOk(r)
  /\ settled[r].value.data.t = "array"
  /\ \A i \in DOMAIN settled[r].value.data.items :
       settled[r].value.data.items[i].embedding.t = "array"

\* C4: POST /api/embeddings/batch answers 400 to an empty texts array and to
\* one of 2049 items, both without any provider call; a texts array of
\* exactly 2048 items passes the validation: the provider is called, the
\* answer is never a 400, and it is a 200 when the provider call succeeds.
C4_BatchSizeBounds ==
  \A r \in Reqs :
    (request[r].route = "batch" /\ request[r].body.texts.t = "array")
      => LET L == LengthOf(request[r].body.texts)
         IN  /\ (L = 0 \/ L = MaxBatchTexts + 1)
                  => /\ Answered(r)
                     /\ Answer(r).status = 400
                     /\ calls[r] = << >>
             /\ L = MaxBatchTexts
                  => /\ Len(calls[r]) = 1
                     /\ calls[r][1].args.input = request[r].body.texts
                     /\ Answered(r) => Answer(r).status # 400
                     /\ (Answered(r) /\ WellFormedData(r))
                          => Answer(r).status = 200

\* C4's case: a batch of exactly 2048 texts was answered with a 200.
C4_Witness ==
  \E r \in Reqs :
    /\ request[r].route = "batch"
    /\ LengthOf(request[r].body.texts) = MaxBatchTexts
    /\ Answered(r)
    /\ Answer(r).status = 200

\* C5: a request makes at most one provider call over its whole handling;
\* a request whose call failed is answered after that one call and never
\* calls again.
C5_AtMostOneProviderCall ==
  \A r \in Reqs :
    /\ Len(calls[r]) <= 1
    /\ settled[r].kind # "pending" => (Len(calls[r]) = 1 /\ Answered(r))

\* C5's case: the provider call of a request failed and the request was
\* answered with one call made.
C5_Witness ==
  \E r \in Reqs : Rejected(r) /\ Answered(r) /\ Len(calls[r]) = 1

\* The request fails its route's validation.
Invalid(bld, req) ==
  \/ RequiredMissing(req)
  \/ req.route = "chat" /\ ~Truthy(req.body.message)
  \/ req.route = "completion" /\ ~Truthy(req.body.prompt)
  \/ req.route = "similarity"
     /\ (~Truthy(req.body.text1) \/ ~Truthy(req.body.text2))
  \/ req.route = "embedding" /\ bld = "part_002" /\ ~Truthy(req.body.text)
  \/ req.route = "batch"
     /\ \/ req.body.texts.t # "array"
        \/ LengthOf(req.body.texts) = 0
        \/ LengthOf(req.body.texts) > MaxBatchTexts

\* The provider's value cannot be reshaped: a part the handler reads of it is
\* missing.
Unshapeable(req, value) ==
  \/ req.route \in {"chat", "completion"} /\ IsUndefined(value.choices)
  \/ req.route \in {"models", "batch", "similarity"} /\ IsUndefined(value.data)
  \/ req.route = "batch" /\ ~IsUndefined(value.data)
     /\ \E i \in DOMAIN value.data.items :
          IsUndefined(value.data.items[i].embedding)
  \/ req.route = "similarity" /\ ~IsUndefined(value.data)
     /\ \/ Len(value.data.items) < 2
        \/ \E i \in DOMAIN value.data.items :
             i <= 2 /\ IsUndefined(value.data.items[i].embedding)

\* Request r failed: its validation, its provider call, or the reshaping of
\* the provider's value.
Failed(r) ==
  \/ Invalid(build, request[r])
  \/ Rejected(r)
  \/ ResolvedOk(r) /\ Unshapeable(request[r], settled[r].value)

\* C6: every request that fails (validation, provider call, reshaping of
\* the provider's value) is answered with a body that has an error field and
\* a status that is no success: 400 or 500.
C6_FailureHasErrorField ==
  \A r \in Reqs :
    (Answered(r) /\ Failed(r))
      => /\ Len(sent[r]) = 1
         /\ Answer(r).status \in {400, 500}
         /\ HasField(Answer(r).body, "error")
         /\ Answer(r).body.error.t = "string"

\* C6's case: the provider resolved a similarity request with a single
\* item, reshaping threw, and the answer is a 500 with an error field.
C6_Witness ==
  \E r \in Reqs :
    /\ request[r].route = "similarity"
    /\ ResolvedOk(r)
    /\ Unshapeable(request[r], settled[r].value)
    /\ Answered(r)
    /\ Answer(r).status = 500
    /\ HasField(Answer(r).body, "error")

\* The similarity request r was answered with a 200: the provider returned
\* two embeddings and the handler computed their similarity.
SimilarityAnswered(r) ==
  /\ request[r].route = "similarity"
  /\ Answered(r)
  /\ Answer(r).status = 200

\* The two vectors the provider returned to the similarity request r.
Vector1(r) == settled[r].value.data.items[1].embedding.items
Vector2(r) == settled[r].value.data.items[2].embedding.items

\* A vector of at least one component, all of them zero.
AllZero(v) == Len(v) >= 1 /\ \A i \in DOMAIN v : IsZero(v[i])
\* A vector with a component that is not zero.
NonZero(v) == \E i \in DOMAIN v : ~IsZero(v[i])

\* |x| <= 1, of a finite x
AtMostOne(x) ==
  IF x.e >= 0 THEN x.m * Pow2(x.e) <= 1 ELSE x.m <= Pow2(0 - x.e)

\* C7: for two vectors of equal length, neither of them all-zero, the
\* cosine similarity the similarity route computes is a number in [-1, 1].
C7_CosineWithinUnitInterval ==
  \A r \in Reqs :
    (/\ SimilarityAnswered(r)
     /\ Len(Vector1(r)) = Len(Vector2(r))
     /\ NonZero(Vector1(r))
     /\ NonZero(Vector2(r)))
      => /\ IsFinite(Answer(r).body.cosine_similarity)
         /\ AtMostOne(Answer(r).body.cosine_similarity)

\* C8: cosine similarity is symmetric: the value the route computed for the
\* two vectors of equal length (a, b) is the value computed for (b, a).
C8_CosineSymmetric ==
  \A r \in Reqs :
    (SimilarityAnswered(r) /\ Len(Vector1(r)) = Len(Vector2(r)))
      => Answer(r).body.cosine_similarity
           = cosineSimilarity(Vector2(r), Vector1(r))

\* C8's case: two different non-zero vectors of two components, answered
\* with a finite similarity that is not zero.
C8_Witness ==
  \E r \in Reqs :
    /\ SimilarityAnswered(r)
    /\ Len(Vector1(r)) = 2
    /\ Len(Vector2(r)) = 2
    /\ Vector1(r) # Vector2(r)
    /\ NonZero(Vector1(r))
    /\ NonZero(Vector2(r))
    /\ IsFinite(Answer(r).body.cosine_similarity)
    /\ ~IsZero(Answer(r).body.cosine_similarity)

\* The provider resolved the similarity request r with two embeddings.
TwoEmbeddings(r) ==
  /\ request[r].route = "similarity"
  /\ ResolvedOk(r)
  /\ ~Unshapeable(request[r], settled[r].value)

\* C9: when either vector the provider returned to the similarity route is
\* all-zero, the route makes no case of it: it divides by the zero product
\* of the magnitudes, answers 200 and no 400 or 500, and returns the
\* non-finite result (NaN) as the similarity, "NaN%" as the percentage.
C9_ZeroVectorNotSpecialCased ==
  \A r \in Reqs :
    (TwoEmbeddings(r) /\ (AllZero(Vector1(r)) \/ AllZero(Vector2(r))))
      => /\ Answered(r)
         /\ Len(sent[r]) = 1
         /\ Answer(r).status = 200
         /\ ~HasField(Answer(r).body, "error")
         /\ ~IsFinite(Answer(r).body.cosine_similarity)
         /\ IsNaN(Answer(r).body.cosine_similarity)
         /\ Answer(r).body.similarity_percentage = Chars(<<"N", "a", "N", "%">>)

\* C9's case: the second vector is all-zero, the first is not, and the
\* answer is a 200 whose similarity is not finite.
C9_Witness ==
  \E r \in Reqs :
    /\ TwoEmbeddings(r)
    /\ NonZero(Vector1(r))
    /\ AllZero(Vector2(r))
    /\ Answered(r)
    /\ Answer(r).status = 200
    /\ ~IsFinite(Answer(r).body.cosine_similarity)

IsDigit(c) == \E d \in 1 .. 10 : Digit[d] = c
DigitValue(c) == (CHOOSE d \in 1 .. 10 : Digit[d] = c) - 1

RECURSIVE ParseNat(_)
\* The natural number a sequence of digits denotes.
ParseNat(cs) ==
  IF cs = << >> THEN 0
  ELSE 10 * ParseNat(SubSeq(cs, 1, Len(cs) - 1)) + DigitValue(cs[Len(cs)])

\* cs reads [-]d..d.dd% and the number it reads is x rounded to 2 decimal
\* places: of all numbers of 2 decimal places, one nearest to the finite x.
TwoDecimalPercent(cs, x) ==
  LET neg  == cs # << >> /\ Head(cs) = "-"
      body == IF neg THEN Tail(cs) ELSE cs
      n    == Len(body)
  IN  /\ n >= 5
      /\ body[n] = "%"
      /\ body[n - 3] = "."
      /\ \A i \in (1 .. n - 4) \cup {n - 2, n - 1} : IsDigit(body[i])
      /\ (n > 5 => body[1] # "0")
      /\ neg => x.sg < 0
      /\ LET h == 100 * ParseNat(SubSeq(body, 1, n - 4))
                  + ParseNat(SubSeq(body, n - 2, n - 1))
             d == IF x.e >= 0
                  THEN 2 * (h - 100 * x.m * Pow2(x.e))
                  ELSE 2 * (h * Pow2(0 - x.e) - 100 * x.m)
             w == IF x.e >= 0 THEN 1 ELSE Pow2(0 - x.e)
         IN  d <= w /\ 0 - d <= w

\* cosine_similarity * 100 of the answer to r
TimesHundred(r) == Mul(Answer(r).body.cosine_similarity, FromInt(100))

\* C10 as the specification states it: in every successful similarity
\* response, similarity_percentage is cosine_similarity times 100 rounded to
\* exactly 2 decimal places, followed by "%".
C10_PercentageHasTwoDecimals ==
  \A r \in Reqs :
    SimilarityAnswered(r)
      => /\ IsFinite(TimesHundred(r))
         /\ TwoDecimalPercent(Answer(r).body.similarity_percentage.chars,
                              TimesHundred(r))

\* C10, amended: in every successful similarity response in which
\* cosine_similarity times 100 is a finite number (below 10^21),
\* similarity_percentage is that number rounded to exactly 2 decimal places,
\* followed by "%"; when it is NaN or an infinity, similarity_percentage is
\* "NaN%", "Infinity%" or "-Infinity%".
C10_PercentageOfFiniteHasTwoDecimals ==
  \A r \in Reqs :
    SimilarityAnswered(r)
      => LET x  == TimesHundred(r)
             cs == Answer(r).body.similarity_percentage.chars
         IN  /\ IsFinite(x) => TwoDecimalPercent(cs, x)
             /\ IsNaN(x) => cs = <<"N", "a", "N", "%">>
             /\ IsInf(x) =>
                  cs = (IF x.sg < 0 THEN <<"-">> ELSE << >>)
                       \o <<"I", "n", "f", "i", "n", "i", "t", "y", "%">>

\* C10's case: a similarity of -1/32, whose percentage -3.125 lies between
\* two numbers of 2 decimal places, is answered as "-3.13%".
C10_Witness ==
  \E r \in Reqs :
    /\ SimilarityAnswered(r)
    /\ IsFinite(Answer(r).body.cosine_similarity)
    /\ Answer(r).body.similarity_percentage
         = Chars(<<"-", "3", ".", "1", "3", "%">>)


\* ------------------------------------------------- concurrency properties

\* What request r is owed by its own body and the settlement of its own
\* provider call alone: the answers it has received so far.
OwnAnswers(r) ==
  IF ~Arrived(r) THEN << >>
  ELSE LET first == Start(build, request[r].route, request[r].body)
       IN  IF first.respond THEN <<first.response>>
           ELSE IF pc[r] = "done"
                THEN <<Continue(request[r], settled[r]).response>>
                ELSE << >>

\* The provider calls request r's own body asks for.
OwnCalls(r) ==
  IF ~Arrived(r) THEN << >>
  ELSE Start(build, request[r].route, request[r].body).calls

\* The part of the state that belongs to request r.
Slot(r) == <<pc[r], request[r], calls[r], settled[r], sent[r]>>

\* A step touches one request at most.
TouchesOneRequest ==
  \E r \in Reqs :
    \A s \in Reqs \ {r} :
      /\ pc'[s] = pc[s]
      /\ request'[s] = request[s]
      /\ calls'[s] = calls[s]
      /\ settled'[s] = settled[s]
      /\ sent'[s] = sent[s]

\* C11: requests handled concurrently are independent: under every
\* interleaving of handlers and provider replies, the responses and the
\* provider calls of a request are those its own body and the outcome of its
\* own provider call determine, whatever other requests are present, whatever
\* their order and outcomes, and no step of one request changes anything of
\* another.
C11_RequestsIndependent ==
  /\ [](\A r \in Reqs : sent[r] = OwnAnswers(r) /\ calls[r] = OwnCalls(r))
  /\ [][TouchesOneRequest]_vars

\* Two requests with the same body are in flight together, the provider call
\* of one fails and that of the other succeeds, and each is answered by its
\* own outcome: 500 and 200.
C11_Witness ==
  \E r \in Reqs : \E s \in Reqs \ {r} :
    /\ Answered(r) /\ Answered(s)
    /\ request[r] = request[s]
    /\ Rejected(r) /\ ResolvedOk(s)
    /\ Answer(r).status = 500
    /\ Answer(s).status = 200


\* The statuses a handler answers with.
Statuses == {200, 400, 500}

\* Request r never gets a second response.
NoSecondResponse ==
  \A r \in Reqs : sent[r] # << >> => sent'[r] = sent[r]

\* The request failed validation: its handler ran and made no provider call.
ValidationFailed(r) == Arrived(r) /\ calls[r] = << >>

\* The provider call of request r has settled, in success or in failure.
CallSettled(r) == settled[r].kind # "pending"

\* C12: every request sends exactly one response: no request ever has more
\* than one response or a status outside 200, 400 and 500, a response once
\* sent is never followed by a second, a request that failed validation has
\* its one response at once, and a request whose provider call has settled,
\* in success or in failure, eventually has its one response.
C12_ExactlyOneResponse ==
  /\ [](\A r \in Reqs :
          /\ Len(sent[r]) <= 1
          /\ \A i \in DOMAIN sent[r] : sent[r][i].status \in Statuses
          /\ ValidationFailed(r) => Len(sent[r]) = 1)
  /\ [][NoSecondResponse]_vars
  /\ \A r \in Reqs : CallSettled(r) ~> (Len(sent[r]) = 1)

\* One request was answered 400 by its validation and another, whose
\* provider call failed, was answered 500 by its catch block; each has exactly
\* one response, and neither made a second provider call.
C12_Witness ==
  \E r \in Reqs : \E s \in Reqs \ {r} :
    /\ ValidationFailed(r) /\ Len(sent[r]) = 1 /\ sent[r][1].status = 400
    /\ Rejected(s) /\ Len(sent[s]) = 1 /\ sent[s][1].status = 500
    /\ Len(calls[s]) = 1

=============================================================================
